---- MODULE Spec2Model ----
(***************************************************************************)
(* unveiler/layers.py: the layer kernels (Dense, Conv2D, MaxPooling2D,     *)
(* Flatten, BatchNormalization, Dropout) and Layer.factory.                *)
(*                                                                         *)
(* A numpy array is a record [shape, data]: shape is the tuple of its      *)
(* dimensions and data maps every 0-based index tuple to the cell's value. *)
(* An in-place write (a[i] = v, a[i] += v, a.fill(v), a[:] = v) changes    *)
(* data only.  float32 cells hold small integers, which float32 represents *)
(* exactly.  A method is an operator from the object and its arguments to  *)
(* the object after the call, the exception raised (if any) and the name   *)
(* of the attribute whose buffer is returned.                              *)
(***************************************************************************)
EXTENDS Integers, Sequences, FiniteSets, TLC

VARIABLES description, layer, tag, ret, fed

vars == <<description, layer, tag, ret, fed>>

\* Largest value of an input cell.
MaxVal == 1

Vals == 0..MaxVal

----------------------------------------------------------------------------
(* Python and numpy primitives *)

\* seq[i] with Python's 0-based index
At(seq, i) == seq[i + 1]

\* len(range(0, stop, step)); its n-th element (0-based) is n * step
RangeLen(stop, step) == IF stop <= 0 THEN 0 ELSE (stop + step - 1) \div step

Min(a, b) == IF a < b THEN a ELSE b

Idx(shape) ==
    IF Len(shape) = 1 THEN {<<a>> : a \in 0..(shape[1] - 1)}
    ELSE IF Len(shape) = 2
      THEN {<<a, b>> : a \in 0..(shape[1] - 1), b \in 0..(shape[2] - 1)}
    ELSE IF Len(shape) = 3
      THEN {<<a, b, c>> : a \in 0..(shape[1] - 1), b \in 0..(shape[2] - 1),
                          c \in 0..(shape[3] - 1)}
    ELSE {<<a, b, c, d>> : a \in 0..(shape[1] - 1), b \in 0..(shape[2] - 1),
                           c \in 0..(shape[3] - 1), d \in 0..(shape[4] - 1)}

\* np.zeros(shape)
Zeros(shape) == [shape |-> shape, data |-> [i \in Idx(shape) |-> 0]]

\* a.fill(v): in place
Fill(a, v) == [a EXCEPT !.data = [i \in DOMAIN a.data |-> v]]

\* the argument left out of a call (x=None, w=None)
NoneArray == [shape |-> <<>>, data |-> <<>>]

IsNone(a) == Len(a.shape) = 0

RECURSIVE SumOver(_, _)
SumOver(S, f) ==
    IF S = {} THEN 0
    ELSE LET e == CHOOSE e \in S : TRUE IN f[e] + SumOver(S \ {e}, f)

\* a.sum()
ArraySum(a) == SumOver(DOMAIN a.data, a.data)

\* Can a value of shape src be assigned to (or added in place into) a
\* target of shape dst: numpy broadcasts src to dst, it never grows dst.
\* Leading axes of src beyond dst's rank must have length 1.
Broadcastable(src, dst) ==
    LET extra == Len(src) - Len(dst)
    IN /\ \A n \in 1..Len(src) :
            IF n <= extra THEN src[n] = 1
            ELSE src[n] = 1 \/ src[n] = dst[n - extra]

\* the cell of v (shape src) that lands on index i of the target
BroadcastIdx(src, i) ==
    LET extra == Len(src) - Len(i)
    IN [n \in 1..Len(src) |->
            IF n <= extra \/ src[n] = 1 THEN 0 ELSE i[n - extra]]

\* a[:] = v
AssignAll(a, v) ==
    [a EXCEPT !.data = [i \in DOMAIN a.data |-> v.data[BroadcastIdx(v.shape, i)]]]

----------------------------------------------------------------------------
(* unveiler.activations.Activation: a name resolved to an elementwise     *)
(* function, returning a new array.                                        *)

Activation(name, a) ==
    IF name = "relu"
      THEN [a EXCEPT !.data = [i \in DOMAIN a.data |->
                                  IF a.data[i] > 0 THEN a.data[i] ELSE 0]]
      ELSE a

----------------------------------------------------------------------------
(* class Layer *)

\* Layer.__init__
Layer_init(keras_layer) ==
    [name |-> keras_layer.name, output |-> Zeros(Tail(keras_layer.output_shape))]

\* the result of a method call
Returned(self, attr) == [self |-> self, exc |-> "None", ref |-> attr]

Raised(self, exc) == [self |-> self, exc |-> exc, ref |-> "None"]

----------------------------------------------------------------------------
(* class Conv2D *)

Conv2D(keras_layer) ==
    [cls |-> "Conv2D",
     name |-> Layer_init(keras_layer).name,
     output |-> Layer_init(keras_layer).output,
     w |-> At(keras_layer.weights, 0),
     b |-> At(keras_layer.weights, 1),
     activation |-> keras_layer.activation,
     kernel_size |-> keras_layer.kernel_size,
     strides |-> keras_layer.strides,
     deconv_output |-> Zeros(Tail(keras_layer.input_shape))]

\* (x[j, k:k+kernel_size[0], l:l+kernel_size[1]] * w[:, :, j, i]).sum()
WindowDot(self, x, i, j, k, l) ==
    LET win == Idx(self.kernel_size)
    IN SumOver(win, [p \in win |->
            x.data[<<j, k + p[1], l + p[2]>>] * self.w.data[<<p[1], p[2], j, i>>]])

\* self.output[i, :, :] += self.b[i]
AddBias(out, i, v) ==
    [out EXCEPT !.data = [c \in DOMAIN out.data |->
                            IF c[1] = i THEN out.data[c] + v ELSE out.data[c]]]

\* The loops of feedforward, lines 57-64, flattened: step n is the n-th
\* statement executed, an accumulation (line 61) or a bias addition
\* (line 64).  The first statement that raises ends the call.
RECURSIVE Conv2D_feedforward_loop(_, _, _, _)
Conv2D_feedforward_loop(self, x, n, out) ==
    LET nK == RangeLen(At(x.shape, 1) - At(self.kernel_size, 0) + 1, At(self.strides, 0))
        nL == RangeLen(At(x.shape, 2) - At(self.kernel_size, 1) + 1, At(self.strides, 1))
        blk == At(x.shape, 0) * nK * nL + 1
        total == At(out.shape, 0) * blk
        i == n \div blk
        r == n % blk
        j == r \div (nK * nL)
        k == ((r \div nL) % nK) * At(self.strides, 0)
        l == (r % nL) * At(self.strides, 1)
        cell == <<i, k \div At(self.strides, 0), l \div At(self.strides, 1)>>
    IN IF n >= total THEN [out |-> out, exc |-> "None"]
       ELSE IF r = blk - 1
         THEN IF <<i>> \notin DOMAIN self.b.data
                THEN [out |-> out, exc |-> "IndexError"]
                ELSE Conv2D_feedforward_loop(self, x, n + 1,
                                             AddBias(out, i, self.b.data[<<i>>]))
       ELSE IF \/ cell \notin DOMAIN out.data
               \/ j >= At(self.w.shape, 2)
               \/ i >= At(self.w.shape, 3)
         THEN [out |-> out, exc |-> "IndexError"]
       ELSE Conv2D_feedforward_loop(self, x, n + 1,
                [out EXCEPT !.data[cell] = @ + WindowDot(self, x, i, j, k, l)])

\* feedforward without line 56: the accumulation starts from what the last
\* call left in the buffer
Conv2D_feedforward_nofill(self, x) ==
    LET run == Conv2D_feedforward_loop(self, x, 0, self.output)
    IN IF run.exc # "None"
         THEN Raised([self EXCEPT !.output = run.out], run.exc)
         ELSE Returned([self EXCEPT !.output =
                           AssignAll(run.out, Activation(self.activation, run.out))],
                       "output")

Conv2D_feedforward(self, x) ==
    LET run == Conv2D_feedforward_loop(self, x, 0, Fill(self.output, 0))
    IN IF run.exc # "None"
         THEN Raised([self EXCEPT !.output = run.out], run.exc)
         ELSE Returned([self EXCEPT !.output =
                           AssignAll(run.out, Activation(self.activation, run.out))],
                       "output")

\* deconv_output[j, k:k+kernel_size[0], l:l+kernel_size[1]] += v * w[:, :, j, i].transpose()
\* The transposed slice has shape (w.shape[1], w.shape[0]); numpy broadcasts it
\* to the window's shape or raises.
AddWindow(self, dec, w, i, j, k, l, v) ==
    LET tshape == <<At(w.shape, 1), At(w.shape, 0)>>
    IN [dec EXCEPT !.data = [c \in DOMAIN dec.data |->
          IF /\ c[1] = j
             /\ c[2] >= k /\ c[2] < k + At(self.kernel_size, 0)
             /\ c[3] >= l /\ c[3] < l + At(self.kernel_size, 1)
            THEN LET t == BroadcastIdx(tshape, <<c[2] - k, c[3] - l>>)
                 IN dec.data[c] + v * w.data[<<t[2], t[1], j, i>>]
            ELSE dec.data[c]]]

\* The loops of deconvolve, lines 78-83, flattened.
RECURSIVE Conv2D_deconvolve_loop(_, _, _, _, _)
Conv2D_deconvolve_loop(self, x, w, n, dec) ==
    LET nJ == At(dec.shape, 0)
        nK == RangeLen(At(dec.shape, 1) - At(self.kernel_size, 0) + 1, At(self.strides, 0))
        nL == RangeLen(At(dec.shape, 2) - At(self.kernel_size, 1) + 1, At(self.strides, 1))
        total == At(x.shape, 0) * nJ * nK * nL
        i == n \div (nJ * nK * nL)
        j == (n \div (nK * nL)) % nJ
        k == ((n \div nL) % nK) * At(self.strides, 0)
        l == (n % nL) * At(self.strides, 1)
        cell == <<i, k \div At(self.strides, 0), l \div At(self.strides, 1)>>
    IN IF n >= total THEN [out |-> dec, exc |-> "None"]
       ELSE IF \/ cell \notin DOMAIN x.data
               \/ j >= At(w.shape, 2)
               \/ i >= At(w.shape, 3)
         THEN [out |-> dec, exc |-> "IndexError"]
       ELSE IF ~Broadcastable(<<At(w.shape, 1), At(w.shape, 0)>>, self.kernel_size)
         THEN [out |-> dec, exc |-> "ValueError"]
       ELSE Conv2D_deconvolve_loop(self, x, w, n + 1,
                AddWindow(self, dec, w, i, j, k, l, x.data[cell]))

\* deconvolve without line 77: the windows are added to what the last call
\* left in the buffer
Conv2D_deconvolve_nofill(self, x, w) ==
    LET x1 == IF IsNone(x) THEN self.output ELSE x
        w1 == IF IsNone(w) THEN self.w ELSE w
        x2 == Activation(self.activation, x1)
        run == Conv2D_deconvolve_loop(self, x2, w1, 0, self.deconv_output)
    IN IF run.exc # "None"
         THEN Raised([self EXCEPT !.deconv_output = run.out], run.exc)
         ELSE Returned([self EXCEPT !.deconv_output = run.out], "deconv_output")

Conv2D_deconvolve(self, x, w) ==
    LET x1 == IF IsNone(x) THEN self.output ELSE x
        w1 == IF IsNone(w) THEN self.w ELSE w
        x2 == Activation(self.activation, x1)
        run == Conv2D_deconvolve_loop(self, x2, w1, 0, Fill(self.deconv_output, 0))
    IN IF run.exc # "None"
         THEN Raised([self EXCEPT !.deconv_output = run.out], run.exc)
         ELSE Returned([self EXCEPT !.deconv_output = run.out], "deconv_output")

----------------------------------------------------------------------------
(* class MaxPooling2D *)

MaxPooling2D(keras_layer) ==
    [cls |-> "MaxPooling2D",
     name |-> Layer_init(keras_layer).name,
     output |-> Layer_init(keras_layer).output,
     pool_size |-> keras_layer.pool_size,
     strides |-> keras_layer.strides,
     indices |-> Zeros(Tail(keras_layer.output_shape) \o <<2>>),
     deconvolutional_output |-> Zeros(Tail(keras_layer.input_shape))]

\* The index tuples of x[idx_in, idx_ih:idx_ih+pool_size[0], idx_iw:idx_iw+pool_size[1]]:
\* a slice that runs past the end of an axis is cut at the end, it never raises.
SliceOfInput(self, x, idx_in, idx_ih, idx_iw) ==
    {<<idx_in, r, c>> :
        r \in idx_ih..(Min(idx_ih + At(self.pool_size, 0), At(x.shape, 1)) - 1),
        c \in idx_iw..(Min(idx_iw + At(self.pool_size, 1), At(x.shape, 2)) - 1)}

\* slice_of_input.max()
SliceMax(x, slice) ==
    CHOOSE v \in {x.data[c] : c \in slice} : \A c \in slice : x.data[c] <= v

\* np.unravel_index(slice_of_input.argmax(), slice_of_input.shape) + [idx_ih, idx_iw]:
\* argmax is the first maximum in row-major order
SliceArgMax(x, slice) ==
    CHOOSE c \in slice :
        /\ x.data[c] = SliceMax(x, slice)
        /\ \A d \in slice : x.data[d] = SliceMax(x, slice) =>
              (c[2] < d[2] \/ (c[2] = d[2] /\ c[3] <= d[3]))

\* The loops of feedforward, lines 102-111, flattened.
RECURSIVE MaxPooling2D_feedforward_loop(_, _, _, _, _)
MaxPooling2D_feedforward_loop(self, x, n, out, ind) ==
    LET nH == RangeLen((At(x.shape, 1) \div At(self.pool_size, 0)) * At(self.pool_size, 0),
                       At(self.strides, 0))
        nW == RangeLen((At(x.shape, 2) \div At(self.pool_size, 1)) * At(self.pool_size, 1),
                       At(self.strides, 1))
        total == At(x.shape, 0) * nH * nW
        idx_in == n \div (nH * nW)
        idx_ih == ((n \div nW) % nH) * At(self.strides, 0)
        idx_iw == (n % nW) * At(self.strides, 1)
        slice == SliceOfInput(self, x, idx_in, idx_ih, idx_iw)
        idx_oh == idx_ih \div At(self.pool_size, 0)
        idx_ow == idx_iw \div At(self.pool_size, 1)
        cell == <<idx_in, idx_oh, idx_ow>>
        max_at == SliceArgMax(x, slice)
    IN IF n >= total THEN [out |-> out, ind |-> ind, exc |-> "None"]
       ELSE IF cell \notin DOMAIN out.data
         THEN [out |-> out, ind |-> ind, exc |-> "IndexError"]
       ELSE MaxPooling2D_feedforward_loop(self, x, n + 1,
                [out EXCEPT !.data[cell] = SliceMax(x, slice)],
                [ind EXCEPT !.data[cell \o <<0>>] = max_at[2],
                            !.data[cell \o <<1>>] = max_at[3]])

MaxPooling2D_feedforward(self, x) ==
    LET run == MaxPooling2D_feedforward_loop(self, x, 0, self.output, self.indices)
        after == [self EXCEPT !.output = run.out, !.indices = run.ind]
    IN IF run.exc # "None" THEN Raised(after, run.exc) ELSE Returned(after, "output")

\* The loops of deconvolve, lines 115-119, flattened: x is visited in
\* row-major order.
RECURSIVE MaxPooling2D_deconvolve_loop(_, _, _, _)
MaxPooling2D_deconvolve_loop(self, x, n, dec) ==
    LET plane == At(x.shape, 1) * At(x.shape, 2)
        total == At(x.shape, 0) * plane
        i == n \div plane
        j == (n \div At(x.shape, 2)) % At(x.shape, 1)
        k == n % At(x.shape, 2)
        jj == self.indices.data[<<i, j, k, 0>>]
        kk == self.indices.data[<<i, j, k, 1>>]
    IN IF n >= total THEN [out |-> dec, exc |-> "None"]
       ELSE IF <<i, j, k, 0>> \notin DOMAIN self.indices.data
         THEN [out |-> dec, exc |-> "IndexError"]
       ELSE IF <<i, jj, kk>> \notin DOMAIN dec.data
         THEN [out |-> dec, exc |-> "IndexError"]
       ELSE MaxPooling2D_deconvolve_loop(self, x, n + 1,
                [dec EXCEPT !.data[<<i, jj, kk>>] = x.data[<<i, j, k>>]])

MaxPooling2D_deconvolve(self, x) ==
    LET run == MaxPooling2D_deconvolve_loop(self, x, 0, self.deconvolutional_output)
        after == [self EXCEPT !.deconvolutional_output = run.out]
    IN IF run.exc # "None" THEN Raised(after, run.exc)
       ELSE Returned(after, "deconvolutional_output")

----------------------------------------------------------------------------
(* class Dense *)

Dense(keras_layer) ==
    [cls |-> "Dense",
     name |-> Layer_init(keras_layer).name,
     output |-> Layer_init(keras_layer).output,
     w |-> At(keras_layer.weights, 0),
     b |-> At(keras_layer.weights, 1),
     activation |-> keras_layer.activation]

\* x.dot(w) + b for a vector x (n,) or a matrix x (m, n); w is (n, out)
DotPlus(x, w, b) ==
    LET n == At(w.shape, 0)
        rows == 0..(n - 1)
    IN IF Len(x.shape) = 1
         THEN [shape |-> <<At(w.shape, 1)>>,
               data |-> [c \in Idx(<<At(w.shape, 1)>>) |->
                   SumOver(rows, [r \in rows |-> x.data[<< r >>] * w.data[<< r, c[1] >>]])
                   + b.data[c]]]
         ELSE [shape |-> <<At(x.shape, 0), At(w.shape, 1)>>,
               data |-> [c \in Idx(<<At(x.shape, 0), At(w.shape, 1)>>) |->
                   SumOver(rows, [r \in rows |-> x.data[<< c[1], r >>] * w.data[<< r, c[2] >>]])
                   + b.data[<<c[2]>>]]]

Dense_feedforward(self, x) ==
    IF At(x.shape, Len(x.shape) - 1) # At(self.w.shape, 0)
      THEN Raised(self, "ValueError")
    ELSE LET v == Activation(self.activation, DotPlus(x, self.w, self.b))
         IN IF ~Broadcastable(v.shape, self.output.shape)
              THEN Raised(self, "ValueError")
              ELSE Returned([self EXCEPT !.output = AssignAll(self.output, v)], "output")

----------------------------------------------------------------------------
(* class Flatten *)

Flatten(keras_layer) ==
    [cls |-> "Flatten",
     name |-> Layer_init(keras_layer).name,
     output |-> Layer_init(keras_layer).output]

\* x.flatten().reshape((1, -1)): the cells of x in row-major order
FlattenRow(x) ==
    LET size == At(x.shape, 0) * At(x.shape, 1) * At(x.shape, 2)
        plane == At(x.shape, 1) * At(x.shape, 2)
    IN [shape |-> <<1, size>>,
        data |-> [c \in Idx(<<1, size>>) |->
            x.data[<<c[2] \div plane, (c[2] \div At(x.shape, 2)) % At(x.shape, 1),
                     c[2] % At(x.shape, 2)>>]]]

Flatten_feedforward(self, x) ==
    IF ~Broadcastable(FlattenRow(x).shape, self.output.shape)
      THEN Raised(self, "ValueError")
      ELSE Returned([self EXCEPT !.output = AssignAll(self.output, FlattenRow(x))],
                    "output")

----------------------------------------------------------------------------
(* class BatchNormalization *)

BatchNormalization(keras_layer) ==
    [cls |-> "BatchNormalization",
     name |-> Layer_init(keras_layer).name,
     output |-> Layer_init(keras_layer).output,
     g |-> At(keras_layer.weights, 0),
     b |-> At(keras_layer.weights, 1),
     m |-> At(keras_layer.weights, 2),
     v |-> At(keras_layer.weights, 3),
     e |-> keras_layer.epsilon]

\* np.sqrt, on the perfect squares the layer descriptions use
Sqrt(n) == CHOOSE r \in 0..n : r * r = n

\* g[i] * (x[i] - m[i]) / np.sqrt(v[i] + e) + b[i]
\* (the descriptions make the division exact)
Normalized(self, x, i) ==
    [shape |-> Tail(x.shape),
     data |-> [c \in Idx(Tail(x.shape)) |->
        (self.g.data[<<i>>] * (x.data[<<i>> \o c] - self.m.data[<<i>>]))
            \div Sqrt(self.v.data[<<i>>] + self.e)
        + self.b.data[<<i>>]]]

\* self.output[i] = v
AssignChannel(out, i, v) ==
    [out EXCEPT !.data = [c \in DOMAIN out.data |->
        IF c[1] = i THEN v.data[BroadcastIdx(v.shape, Tail(c))] ELSE out.data[c]]]

\* The loop of feedforward, lines 141-142.
RECURSIVE BatchNormalization_feedforward_loop(_, _, _, _)
BatchNormalization_feedforward_loop(self, x, i, out) ==
    IF i >= At(x.shape, 0) THEN [out |-> out, exc |-> "None"]
    ELSE IF <<i>> \notin DOMAIN self.g.data \/ i >= At(out.shape, 0)
      THEN [out |-> out, exc |-> "IndexError"]
    ELSE IF ~Broadcastable(Tail(x.shape), Tail(out.shape))
      THEN [out |-> out, exc |-> "ValueError"]
    ELSE BatchNormalization_feedforward_loop(self, x, i + 1,
             AssignChannel(out, i, Normalized(self, x, i)))

BatchNormalization_feedforward(self, x) ==
    LET run == BatchNormalization_feedforward_loop(self, x, 0, self.output)
    IN IF run.exc # "None"
         THEN Raised([self EXCEPT !.output = run.out], run.exc)
         ELSE Returned([self EXCEPT !.output = run.out], "output")

----------------------------------------------------------------------------
(* class Dropout *)

Dropout(keras_layer) ==
    [cls |-> "Dropout",
     name |-> Layer_init(keras_layer).name,
     output |-> Layer_init(keras_layer).output]

\* feedforward as self.output = x: the attribute is rebound to the input
\* instead of the buffer being overwritten
Dropout_feedforward_rebind(self, x) ==
    Returned([self EXCEPT !.output = x], "output")

Dropout_feedforward(self, x) ==
    IF ~Broadcastable(x.shape, self.output.shape)
      THEN Raised(self, "ValueError")
      ELSE Returned([self EXCEPT !.output = AssignAll(self.output, x)], "output")

----------------------------------------------------------------------------
(* Layer.factory *)

\* isinstance(keras_layer, cls): cls is the object's class or a base of it.
\* mro is type(keras_layer).__mro__, the class first.
IsInstance(keras_layer, cls) ==
    \E n \in 1..Len(keras_layer.mro) : keras_layer.mro[n] = cls

\* no object (None)
NoLayer == [cls |-> "None"]

\* the pair returned, or the exception raised and its message's type name
Layer_factory(keras_layer) ==
    IF IsInstance(keras_layer, "Dense")
      THEN [kernel |-> Dense(keras_layer), tag |-> "other", exc |-> "None", msg |-> ""]
    ELSE IF IsInstance(keras_layer, "Conv2D")
      THEN [kernel |-> Conv2D(keras_layer), tag |-> "conv", exc |-> "None", msg |-> ""]
    ELSE IF IsInstance(keras_layer, "MaxPooling2D")
      THEN [kernel |-> MaxPooling2D(keras_layer), tag |-> "maxpool", exc |-> "None",
            msg |-> ""]
    ELSE IF IsInstance(keras_layer, "Flatten")
      THEN [kernel |-> Flatten(keras_layer), tag |-> "other", exc |-> "None", msg |-> ""]
    ELSE IF IsInstance(keras_layer, "BatchNormalization")
      THEN [kernel |-> BatchNormalization(keras_layer), tag |-> "other", exc |-> "None",
            msg |-> ""]
    ELSE IF IsInstance(keras_layer, "Dropout")
      THEN [kernel |-> Dropout(keras_layer), tag |-> "other", exc |-> "None", msg |-> ""]
    ELSE IF IsInstance(keras_layer, "InputLayer")
      THEN [kernel |-> NoLayer, tag |-> "None", exc |-> "None", msg |-> ""]
    ELSE [kernel |-> NoLayer, tag |-> "None", exc |-> "ValueError",
          msg |-> At(keras_layer.mro, 0)]

----------------------------------------------------------------------------
(* The layer descriptions handed to the factory.  Shapes carry the batch   *)
(* axis first, as Keras reports them; the data format is channels first.  *)

Arrays(shape, S) == {[shape |-> shape, data |-> d] : d \in [Idx(shape) -> S]}

Uniform(shape, v) == [shape |-> shape, data |-> [i \in Idx(shape) |-> v]]

BiasVals == {0, 1}

\* Keras, padding 'valid': the number of window positions along an axis
ValidDim(n, k, s) == (n - k) \div s + 1

ValidShape(input_shape, channels, size, strides) ==
    <<"None", channels,
      ValidDim(At(input_shape, 1), At(size, 0), At(strides, 0)),
      ValidDim(At(input_shape, 2), At(size, 1), At(strides, 1))>>

\* a kernel whose cells differ along every axis
Ramp(shape) ==
    [shape |-> shape,
     data |-> [c \in Idx(shape) |-> 1 + c[1] - 2 * c[2] + 2 * c[3] - c[4]]]

\* the weights, bias and activation of a convolution layer
ConvParameters(wshape) ==
    {[w |-> Ramp(wshape), b |-> Uniform(<<At(wshape, 3)>>, 0), activation |-> "linear"],
     [w |-> Uniform(wshape, 1), b |-> Uniform(<<At(wshape, 3)>>, 1), activation |-> "linear"],
     [w |-> Uniform(wshape, -1), b |-> Uniform(<<At(wshape, 3)>>, 1), activation |-> "relu"]}

ConvGeometries ==
    {[input_shape |-> <<1, 2, 2>>, kernel_size |-> <<2, 2>>, strides |-> <<2, 2>>, filters |-> 1],
     [input_shape |-> <<1, 1, 2>>, kernel_size |-> <<1, 1>>, strides |-> <<1, 1>>, filters |-> 1],
     [input_shape |-> <<1, 1, 3>>, kernel_size |-> <<1, 1>>, strides |-> <<1, 2>>, filters |-> 1],
     [input_shape |-> <<2, 1, 1>>, kernel_size |-> <<1, 1>>, strides |-> <<1, 1>>, filters |-> 2],
     [input_shape |-> <<1, 1, 3>>, kernel_size |-> <<1, 2>>, strides |-> <<1, 1>>, filters |-> 1]}

ConvLayer(cls, g, w, b, a) ==
    [mro |-> cls,
     name |-> "conv",
     input_shape |-> <<"None">> \o g.input_shape,
     output_shape |-> ValidShape(g.input_shape, g.filters, g.kernel_size, g.strides),
     weights |-> <<w, b>>,
     activation |-> a,
     kernel_size |-> g.kernel_size,
     strides |-> g.strides]

Conv2DLayers ==
    UNION {{ConvLayer(<<"Conv2D", "Layer">>, g, p.w, p.b, p.activation) :
                p \in ConvParameters(g.kernel_size \o <<At(g.input_shape, 0), g.filters>>)} :
           g \in ConvGeometries}

PoolGeometries ==
    {[input_shape |-> <<1, 1, 3>>, pool_size |-> <<1, 2>>, strides |-> <<1, 1>>],
     [input_shape |-> <<1, 1, 3>>, pool_size |-> <<1, 1>>, strides |-> <<1, 2>>],
     [input_shape |-> <<1, 1, 2>>, pool_size |-> <<1, 2>>, strides |-> <<1, 2>>]}

\* the larger pooling layers, explored when a pooling layer is taken alone
LargePoolGeometries ==
    {[input_shape |-> <<1, 2, 2>>, pool_size |-> <<2, 2>>, strides |-> <<2, 2>>],
     [input_shape |-> <<1, 1, 4>>, pool_size |-> <<1, 2>>, strides |-> <<1, 2>>],
     [input_shape |-> <<2, 1, 2>>, pool_size |-> <<1, 2>>, strides |-> <<1, 2>>]}

MaxPooling2DLayers(geometries) ==
    {[mro |-> <<"MaxPooling2D", "Layer">>,
      name |-> "pool",
      input_shape |-> <<"None">> \o g.input_shape,
      output_shape |-> ValidShape(g.input_shape, At(g.input_shape, 0), g.pool_size, g.strides),
      pool_size |-> g.pool_size,
      strides |-> g.strides] : g \in geometries}

DenseLayers ==
    {[mro |-> <<"Dense", "Layer">>,
      name |-> "dense",
      input_shape |-> <<"None", 2>>,
      output_shape |-> <<"None", 2>>,
      weights |-> <<w, b>>,
      activation |-> a] :
        w \in {[shape |-> <<2, 2>>,
                data |-> [c \in Idx(<<2, 2>>) |-> IF c[1] = c[2] THEN 1 ELSE 0]],
               [shape |-> <<2, 2>>,
                data |-> [c \in Idx(<<2, 2>>) |-> c[1] - c[2]]]},
        b \in Arrays(<<2>>, BiasVals),
        a \in {"linear", "relu"}}

FlattenLayers ==
    {[mro |-> <<"Flatten", "Layer">>,
      name |-> "flatten",
      input_shape |-> <<"None", 1, 2, 2>>,
      output_shape |-> <<"None", 4>>]}

\* gamma, beta, mean, variance per channel; variance + epsilon is a perfect
\* square whose root divides gamma
BatchNormalizationLayers ==
    {[mro |-> <<"BatchNormalization", "Layer">>,
      name |-> "bn",
      input_shape |-> <<"None", 2, 1, 1>>,
      output_shape |-> <<"None", 2, 1, 1>>,
      weights |-> <<g, b, m, v>>,
      epsilon |-> 0] :
        g \in {Uniform(<<2>>, 1), Uniform(<<2>>, 2)},
        b \in Arrays(<<2>>, BiasVals),
        m \in {Uniform(<<2>>, 0), Uniform(<<2>>, 1)},
        v \in {Uniform(<<2>>, 1)}}

DropoutLayers ==
    {[mro |-> <<"Dropout", "Layer">>,
      name |-> "dropout",
      input_shape |-> <<"None", 1, 1, 2>>,
      output_shape |-> <<"None", 1, 1, 2>>]}

\* an input placeholder, a class the factory does not know, and a class
\* derived from a supported one
OtherLayers ==
    {[mro |-> <<"InputLayer", "Layer">>, name |-> "input",
      input_shape |-> <<"None", 1, 2, 2>>, output_shape |-> <<"None", 1, 2, 2>>],
     [mro |-> <<"Activation", "Layer">>, name |-> "act",
      input_shape |-> <<"None", 1, 2, 2>>, output_shape |-> <<"None", 1, 2, 2>>],
     ConvLayer(<<"Conv2DTranspose", "Conv2D", "Layer">>,
               [input_shape |-> <<1, 1, 1>>, kernel_size |-> <<1, 1>>,
                strides |-> <<1, 1>>, filters |-> 1],
               Uniform(<<1, 1, 1, 1>>, 1), Uniform(<<1>>, 0), "linear")}

KerasLayers ==
    Conv2DLayers \cup MaxPooling2DLayers(PoolGeometries) \cup DenseLayers \cup FlattenLayers
        \cup BatchNormalizationLayers \cup DropoutLayers \cup OtherLayers

----------------------------------------------------------------------------
(* The arguments of the calls: every array of the expected shape over Vals, *)
(* and arrays one longer or shorter along the last axis, or with the axes   *)
(* reversed.                                                                *)

Reverse(shape) == [n \in 1..Len(shape) |-> shape[Len(shape) + 1 - n]]

WrongShapes(shape) ==
    ({[shape EXCEPT ![Len(shape)] = @ + 1], Reverse(shape)}
        \cup (IF shape[Len(shape)] > 1
                THEN {[shape EXCEPT ![Len(shape)] = @ - 1]} ELSE {})) \ {shape}

Inputs(shape) ==
    Arrays(shape, Vals) \cup {Uniform(s, MaxVal) : s \in WrongShapes(shape)}

InputShape == Tail(description.input_shape)

OutputShape == Tail(description.output_shape)

----------------------------------------------------------------------------
(* The state machine: the factory builds the kernel from the description, then *)
(* the driver calls the kernel's methods in any order.  ret records the    *)
(* last call: its arguments, the exception it raised and the attribute     *)
(* whose buffer it returned.  fed records the most recent feedforward      *)
(* call: its input and the exception it raised.                            *)

NoCall ==
    [op |-> "none", x |-> NoneArray, w |-> NoneArray, exc |-> "None", ref |-> "None",
     msg |-> ""]

NeverFed == [x |-> NoneArray, exc |-> "None"]

Init ==
    /\ description \in KerasLayers
    /\ layer = NoLayer
    /\ tag = "None"
    /\ ret = NoCall
    /\ fed = NeverFed

Factory ==
    /\ ret.op = "none"
    /\ LET r == Layer_factory(description)
       IN /\ layer' = r.kernel
          /\ tag' = r.tag
          /\ ret' = [op |-> "factory", x |-> NoneArray, w |-> NoneArray,
                     exc |-> r.exc,
                     ref |-> IF r.kernel.cls = "None" THEN "None" ELSE "kernel",
                     msg |-> r.msg]
    /\ UNCHANGED <<description, fed>>

Call(op, x, w, r) ==
    LET done == r
    IN /\ layer' = done.self
       /\ ret' = [op |-> op, x |-> x, w |-> w, exc |-> done.exc, ref |-> done.ref,
                  msg |-> ""]
       /\ fed' = IF op = "feedforward" THEN [x |-> x, exc |-> done.exc] ELSE fed
       /\ UNCHANGED <<description, tag>>

FeedforwardDense ==
    /\ layer.cls = "Dense"
    /\ \E x \in Inputs(InputShape) \cup Arrays(<<1>> \o InputShape, Vals) :
          Call("feedforward", x, NoneArray, Dense_feedforward(layer, x))

FeedforwardConv2D ==
    /\ layer.cls = "Conv2D"
    /\ \E x \in Inputs(InputShape) :
          Call("feedforward", x, NoneArray, Conv2D_feedforward(layer, x))

DeconvolveConv2D ==
    /\ layer.cls = "Conv2D"
    /\ \E x \in Inputs(OutputShape) \cup {NoneArray} :
          \E w \in {NoneArray, Uniform(layer.w.shape, 1)} :
             Call("deconvolve", x, w, Conv2D_deconvolve(layer, x, w))

FeedforwardMaxPooling2D ==
    /\ layer.cls = "MaxPooling2D"
    /\ \E x \in Inputs(InputShape) :
          Call("feedforward", x, NoneArray, MaxPooling2D_feedforward(layer, x))

DeconvolveMaxPooling2D ==
    /\ layer.cls = "MaxPooling2D"
    /\ \E x \in Inputs(OutputShape) :
          Call("deconvolve", x, NoneArray, MaxPooling2D_deconvolve(layer, x))

FeedforwardFlatten ==
    /\ layer.cls = "Flatten"
    /\ \E x \in Inputs(InputShape) :
          Call("feedforward", x, NoneArray, Flatten_feedforward(layer, x))

FeedforwardBatchNormalization ==
    /\ layer.cls = "BatchNormalization"
    /\ \E x \in Inputs(InputShape) :
          Call("feedforward", x, NoneArray, BatchNormalization_feedforward(layer, x))

FeedforwardDropout ==
    /\ layer.cls = "Dropout"
    /\ \E x \in Inputs(InputShape) :
          Call("feedforward", x, NoneArray, Dropout_feedforward(layer, x))

Next ==
    \/ Factory
    \/ FeedforwardDense
    \/ FeedforwardConv2D
    \/ DeconvolveConv2D
    \/ FeedforwardMaxPooling2D
    \/ DeconvolveMaxPooling2D
    \/ FeedforwardFlatten
    \/ FeedforwardBatchNormalization
    \/ FeedforwardDropout

Spec == Init /\ [][Next]_vars

\* a convolution layer alone
InitConv2D == Init /\ IsInstance(description, "Conv2D")

NextConv2D == Factory \/ FeedforwardConv2D \/ DeconvolveConv2D

SpecConv2D == InitConv2D /\ [][NextConv2D]_vars

\* a max-pooling layer alone
InitMaxPooling2D ==
    /\ description \in MaxPooling2DLayers(PoolGeometries \cup LargePoolGeometries)
    /\ layer = NoLayer
    /\ tag = "None"
    /\ ret = NoCall
    /\ fed = NeverFed

NextMaxPooling2D == Factory \/ FeedforwardMaxPooling2D \/ DeconvolveMaxPooling2D

SpecMaxPooling2D == InitMaxPooling2D /\ [][NextMaxPooling2D]_vars

\* the array the last call returned: the buffer of the attribute it names
Result ==
    IF ret.ref = "output" THEN layer.output
    ELSE IF ret.ref = "deconv_output" THEN layer.deconv_output
    ELSE IF ret.ref = "deconvolutional_output" THEN layer.deconvolutional_output
    ELSE NoneArray

----------------------------------------------------------------------------
(* Conv2D: the convolution and its transpose, stated cell by cell *)

\* the last call was op, on a kernel of class cls
Called(op, cls) == ret.op = op /\ layer.cls = cls

\* the window of x[j] with top-left corner (top, left), times w[:, :, j, i], summed
WindowProduct(self, x, i, j, top, left) ==
    LET win == Idx(self.kernel_size)
    IN SumOver(win, [p \in win |->
          x.data[<<j, top + p[1], left + p[2]>>] * self.w.data[<<p[1], p[2], j, i>>]])

\* the forward accumulator before the bias is added
ConvAccumulator(self, x) ==
    LET shape == <<At(self.w.shape, 3),
                   ValidDim(At(x.shape, 1), At(self.kernel_size, 0), At(self.strides, 0)),
                   ValidDim(At(x.shape, 2), At(self.kernel_size, 1), At(self.strides, 1))>>
        chans == 0..(At(x.shape, 0) - 1)
    IN [shape |-> shape,
        data |-> [c \in Idx(shape) |->
            SumOver(chans, [j \in chans |->
                WindowProduct(self, x, c[1], j, c[2] * At(self.strides, 0),
                              c[3] * At(self.strides, 1))])]]

\* the accumulator plus the bias of each output channel
Convolution(self, x) ==
    [shape |-> ConvAccumulator(self, x).shape,
     data |-> [c \in Idx(ConvAccumulator(self, x).shape) |->
                  ConvAccumulator(self, x).data[c] + self.b.data[<<c[1]>>]]]

\* C3: feedforward(x) on a Conv2D layer, x of the layer's input shape, returns
\* an array with floor((H - kernel_h) / stride_h) + 1 rows and
\* floor((W - kernel_w) / stride_w) + 1 columns per output channel, whose cell
\* [i, r, c] is the activation of b[i] plus the sum over the input channels j of
\* the window of x[j] at (r * stride_h, c * stride_w) times W[:, :, j, i]:
\* the bias once, and nothing of an earlier call.
C3_Conv2DFeedforward ==
    (Called("feedforward", "Conv2D") /\ ret.x.shape = InputShape) =>
        /\ ret.exc = "None"
        /\ Result = Activation(layer.activation, Convolution(layer, ret.x))

\* a forward pass with stride 2 that follows a deconvolve call and returns a
\* non-zero cell
C3_Witness ==
    /\ Called("feedforward", "Conv2D")
    /\ ret.x.shape = InputShape
    /\ At(layer.strides, 1) = 2
    /\ \E c \in DOMAIN Result.data : Result.data[c] # 0
    /\ \E c \in DOMAIN layer.deconv_output.data : layer.deconv_output.data[c] # 0

\* the windows of the input-shaped result that cover cell (r, c): their
\* positions in the forward output
Covering(self, shape, r, c) ==
    {q \in Idx(<<ValidDim(At(shape, 1), At(self.kernel_size, 0), At(self.strides, 0)),
                 ValidDim(At(shape, 2), At(self.kernel_size, 1), At(self.strides, 1))>>) :
        /\ q[1] * At(self.strides, 0) <= r
        /\ r < q[1] * At(self.strides, 0) + At(self.kernel_size, 0)
        /\ q[2] * At(self.strides, 1) <= c
        /\ c < q[2] * At(self.strides, 1) + At(self.kernel_size, 1)}

\* a zero array of the input's shape plus, for every channel i of x, every
\* result channel j and every window, x[i, row, col] * transpose(w[:, :, j, i])
TransposedConvolution(self, x, w) ==
    LET shape == self.deconv_output.shape
        chans == 0..(At(x.shape, 0) - 1)
    IN [shape |-> shape,
        data |-> [c \in Idx(shape) |->
            SumOver(chans, [i \in chans |->
                SumOver(Covering(self, shape, c[2], c[3]),
                    [q \in Covering(self, shape, c[2], c[3]) |->
                        x.data[<<i, q[1], q[2]>>]
                          * w.data[<<c[3] - q[2] * At(self.strides, 1),
                                     c[2] - q[1] * At(self.strides, 0), c[1], i>>]])])]]

\* the arguments deconvolve works on: the last forward output for an omitted
\* x, the layer's weights for an omitted w
DeconvolvedX == Activation(layer.activation, IF IsNone(ret.x) THEN layer.output ELSE ret.x)

DeconvolvedW == IF IsNone(ret.w) THEN layer.w ELSE ret.w

\* C4: deconvolve(x, w) on a Conv2D layer, for every kernel_size, returns the
\* input-shaped array made of a zero array plus every
\* x[i, row, col] * transpose(w[:, :, j, i]) added to its window, cached in
\* deconv_output, with the defaults for omitted arguments and nothing of an
\* earlier deconvolve call.
C4_Conv2DDeconvolve ==
    (Called("deconvolve", "Conv2D") /\ (IsNone(ret.x) \/ ret.x.shape = OutputShape)) =>
        /\ ret.exc = "None"
        /\ ret.ref = "deconv_output"
        /\ Result.shape = InputShape
        /\ Result = TransposedConvolution(layer, DeconvolvedX, DeconvolvedW)

\* deconvolve() with both arguments omitted, on a linear layer whose strides
\* equal its kernel_size, after a forward pass of a well-shaped x
AfterRoundTrip ==
    /\ Called("deconvolve", "Conv2D")
    /\ IsNone(ret.x) /\ IsNone(ret.w)
    /\ layer.activation = "linear"
    /\ layer.strides = layer.kernel_size
    /\ ~IsNone(fed.x) /\ fed.x.shape = InputShape /\ fed.exc = "None"

ChannelSum(a, i) ==
    SumOver({c \in DOMAIN a.data : c[1] = i}, a.data)

\* the sum of the weights that feed output channel i
FilterSum(w, i) ==
    SumOver({c \in DOMAIN w.data : c[4] = i}, w.data)

----------------------------------------------------------------------------
(* MaxPooling2D *)

\* the full pool_size window whose top-left corner is (r * stride_h, c * stride_w),
\* in channel ch
PoolWindow(self, ch, r, c) ==
    {<<ch, r * At(self.strides, 0) + a, c * At(self.strides, 1) + b>> :
        a \in 0..(At(self.pool_size, 0) - 1), b \in 0..(At(self.pool_size, 1) - 1)}

\* the window positions, stepped by strides, at which a full window fits
FittingWindows(self, x) ==
    Idx(<<At(x.shape, 0),
          ValidDim(At(x.shape, 1), At(self.pool_size, 0), At(self.strides, 0)),
          ValidDim(At(x.shape, 2), At(self.pool_size, 1), At(self.strides, 1))>>)

\* C2: feedforward(x) on a MaxPooling2D layer, x of the layer's input shape,
\* for every pool_size and strides: every window position stepped by strides
\* at which a full window fits has its own output cell (top / stride,
\* left / stride), holding the maximum of the full window, and indices there
\* holds the absolute (row, col) of that maximum.
C2_MaxPooling2DFeedforward ==
    (Called("feedforward", "MaxPooling2D") /\ ret.x.shape = InputShape) =>
        /\ ret.exc = "None"
        /\ \A c \in FittingWindows(layer, ret.x) :
              LET win == PoolWindow(layer, c[1], c[2], c[3])
              IN /\ c \in DOMAIN Result.data
                 /\ Result.data[c] = SliceMax(ret.x, win)
                 /\ layer.indices.data[c \o <<0>>] = SliceArgMax(ret.x, win)[2]
                 /\ layer.indices.data[c \o <<1>>] = SliceArgMax(ret.x, win)[3]

\* the coordinates recorded in indices for the cells of x
Recorded(self, x) ==
    {<<i[1], self.indices.data[i \o <<0>>], self.indices.data[i \o <<1>>]>> :
        i \in DOMAIN x.data \cap DOMAIN self.output.data}

\* C1: the array deconvolve(x) returns on a MaxPooling2D layer is zero at
\* every coordinate that indices does not record for a cell of x: nothing
\* written by an earlier deconvolve call shows.
C1_DeconvolveFreshBuffer ==
    (Called("deconvolve", "MaxPooling2D") /\ ret.exc = "None"
        /\ ret.x.shape = OutputShape) =>
        \A c \in DOMAIN Result.data :
            c \notin Recorded(layer, ret.x) => Result.data[c] = 0

\* a kernel built from the description that has seen one call, feedforward(x)
FedOnce(x) == MaxPooling2D_feedforward(MaxPooling2D(description), x).self

\* the last cell of channel i of x, in row-major order
LastCell(x, i) == <<i, At(x.shape, 1) - 1, At(x.shape, 2) - 1>>

\* C10: on a MaxPooling2D layer, indices holds what the most recent
\* feedforward call computed from its input and nothing of an earlier input,
\* all zeros if there was none; deconvolve leaves indices as it is; and a
\* deconvolve(x) before any feedforward sends the cells of channel i of x to
\* (0, 0) of channel i.
C10_IndicesOfLastFeedforward ==
    layer.cls = "MaxPooling2D" =>
        /\ IsNone(fed.x) => layer.indices = Zeros(OutputShape \o <<2>>)
        /\ ~IsNone(fed.x) => layer.indices = FedOnce(fed.x).indices
        /\ (ret.op = "deconvolve" /\ IsNone(fed.x) /\ ret.x.shape = OutputShape) =>
              /\ ret.exc = "None"
              /\ \A c \in DOMAIN Result.data :
                    Result.data[c] = IF c[2] = 0 /\ c[3] = 0
                                       THEN ret.x.data[LastCell(ret.x, c[1])]
                                       ELSE 0

----------------------------------------------------------------------------
(* Layer.factory *)

SupportedTypes ==
    {"Dense", "Conv2D", "MaxPooling2D", "Flatten", "BatchNormalization", "Dropout"}

CategoryOf(type) ==
    IF type = "Conv2D" THEN "conv" ELSE IF type = "MaxPooling2D" THEN "maxpool" ELSE "other"

\* the class of the layer description
DeclaredType == At(description.mro, 0)

\* C6: the factory is a fixed table over the declared type: each of the six
\* supported types gives its kernel and category, with a zero-filled output
\* buffer of the declared output shape; an input placeholder gives no kernel
\* and no error; every other type fails with an error naming it, and no
\* kernel is constructed.
C6_FactoryTable ==
    ret.op = "factory" =>
        /\ DeclaredType \in SupportedTypes =>
              /\ ret.exc = "None"
              /\ layer.cls = DeclaredType
              /\ tag = CategoryOf(DeclaredType)
              /\ layer.output = Zeros(OutputShape)
        /\ DeclaredType = "InputLayer" =>
              ret.exc = "None" /\ layer.cls = "None" /\ tag = "None"
        /\ DeclaredType \notin SupportedTypes \cup {"InputLayer"} =>
              /\ ret.exc = "ValueError"
              /\ ret.msg = DeclaredType
              /\ layer.cls = "None"
              /\ tag = "None"

----------------------------------------------------------------------------
(* Every kernel *)

\* x has the shape the call expects: the declared input shape for
\* feedforward (for Dense also as a 1 x n row), the declared output shape
\* for deconvolve, or x is omitted from Conv2D.deconvolve
WellShaped(op, x) ==
    \/ op = "feedforward" /\ x.shape = InputShape
    \/ op = "feedforward" /\ layer.cls = "Dense" /\ x.shape = <<1>> \o InputShape
    \/ op = "deconvolve" /\ x.shape = OutputShape
    \/ op = "deconvolve" /\ layer.cls = "Conv2D" /\ IsNone(x)

\* C7: a feedforward or deconvolve call whose input does not have the
\* expected shape fails: it raises, returns no array, and leaves the layer's
\* buffers as they were before the call.
C7_ShapeMismatch ==
    [][(ret'.op \in {"feedforward", "deconvolve"} /\ ~WellShaped(ret'.op, ret'.x)) =>
          (ret'.exc # "None" /\ ret'.ref = "None" /\ layer' = layer)]_vars

\* C8: once built, the layer's output buffer keeps the declared output shape
\* and its cells, the deconvolution buffer of a Conv2D or MaxPooling2D layer
\* keeps the declared input shape and its cells, and the array feedforward
\* returns is the output buffer.
C8_BuffersKeepShape ==
    layer.cls # "None" =>
        /\ layer.output.shape = OutputShape
        /\ DOMAIN layer.output.data = Idx(OutputShape)
        /\ layer.cls = "Conv2D" =>
              /\ layer.deconv_output.shape = InputShape
              /\ DOMAIN layer.deconv_output.data = Idx(InputShape)
        /\ layer.cls = "MaxPooling2D" =>
              /\ layer.deconvolutional_output.shape = InputShape
              /\ DOMAIN layer.deconvolutional_output.data = Idx(InputShape)
        /\ (ret.op = "feedforward" /\ ret.exc = "None") => ret.ref = "output"

\* a feedforward call that returned although its input had another shape
\* than the declared one, with something written to the output buffer
C8_Witness ==
    /\ ret.op = "feedforward"
    /\ ret.exc = "None"
    /\ ~WellShaped("feedforward", ret.x)
    /\ \E c \in DOMAIN layer.output.data : layer.output.data[c] # 0

\* self.feedforward(x), dispatched on the object's class
Feedforward(self, x) ==
    IF self.cls = "Dense" THEN Dense_feedforward(self, x)
    ELSE IF self.cls = "Conv2D" THEN Conv2D_feedforward(self, x)
    ELSE IF self.cls = "MaxPooling2D" THEN MaxPooling2D_feedforward(self, x)
    ELSE IF self.cls = "Flatten" THEN Flatten_feedforward(self, x)
    ELSE IF self.cls = "BatchNormalization" THEN BatchNormalization_feedforward(self, x)
    ELSE Dropout_feedforward(self, x)

\* C9: feedforward(x), x of the declared input shape, returns what a second
\* instance built from the same description returns for x as its first call,
\* whatever calls the instance has seen before.
C9_FeedforwardDeterministic ==
    (ret.op = "feedforward" /\ WellShaped("feedforward", ret.x)) =>
        LET other == Feedforward(Layer_factory(description).kernel, ret.x)
        IN /\ ret.exc = other.exc
           /\ ret.exc = "None" => Result = other.self.output

====
